---- MODULE Spec2Model ----
(***************************************************************************)
(* Label derivation and study-level evaluation of the CheXpert notebooks.  *)
(*                                                                         *)
(* A data frame is a sequence of rows; a row is a function from column     *)
(* names to cell values.  A Python string is a sequence of atoms: the      *)
(* characters of a path, or whole finding names and the delimiter of a     *)
(* label string.  A float cell is kept in fixed point, in units of         *)
(* 1/Scale, so that labels (-1, 0, 1) and predicted scores in [0, 1] live  *)
(* in the same column, as they do in the notebook.                         *)
(***************************************************************************)
EXTENDS Integers, Sequences, FiniteSets, TLC

VARIABLES
    full_train_df,   \* table read from train.csv, plus derived columns
    full_valid_df,   \* table read from valid.csv, plus derived columns
    full_df,         \* pd.concat([full_train_df, full_valid_df]) plus feature_string
    files,           \* train.csv and valid.csv as they are on disk
    data,            \* the global `data` (its classes), or NoData
    learn,           \* the global `learn` (classes, per-image scores), or NoLearn
    pc,              \* the next notebook cell to run, or the error that stopped it
    call,            \* the last function call and what it returned or raised
    fit              \* the training run: clock, callbacks still to call, checkpoints

vars == <<full_train_df, full_valid_df, full_df, files, data, learn, pc, call, fit>>

(***************************************************************************)
(* Bounds of the model.                                                    *)
(***************************************************************************)
Scale == 2           \* fixed-point resolution of a float cell
MaxRaw == 2          \* raw label cells range over -1..MaxRaw and blank
MaxValidRows == 2    \* rows of valid.csv
MaxTrainRows == 1    \* rows of train.csv
MaxPathLen == 7      \* characters of a path in the path-parsing specification
MaxStudies == 4      \* studies scored in the roc_auc_score specification
MaxDen == 3          \* greatest denominator of a score in the report specification
MaxEpochs == 2       \* epochs of the training run
MaxMinutes == 1      \* minutes the wall clock advances during the run
MaxLrFinds == 2      \* calls of lr_find_no_cbs

(***************************************************************************)
(* Values.                                                                 *)
(***************************************************************************)
Num(n) == n * Scale

NaN == -999

None == <<"None">>

ScoreLevels == 0..Scale

RawValues == {Num(v) : v \in -1..MaxRaw} \cup {NaN}

(***************************************************************************)
(* Configuration cells.                                                    *)
(***************************************************************************)
chexnet_targets ==
    <<"No Finding", "Enlarged Cardiomediastinum", "Cardiomegaly", "Lung Opacity",
      "Lung Lesion", "Edema", "Consolidation", "Pneumonia", "Atelectasis",
      "Pneumothorax", "Pleural Effusion", "Pleural Other", "Fracture",
      "Support Devices">>

chexpert_targets ==
    <<"Atelectasis", "Cardiomegaly", "Consolidation", "Edema", "Pleural Effusion">>

u_one_features == <<"Atelectasis", "Edema">>

u_zero_features_M1 == <<"Cardiomegaly", "Consolidation", "Edema", "Pleural Effusion">>

u_zero_features == <<"Cardiomegaly", "Consolidation", "Pleural Effusion">>

Range(s) == {s[k] : k \in 1..Len(s)}

\* The finding columns the model keeps of the fourteen of the file: the
\* five targets and one finding that is no target.
FindingColumns == Range(chexpert_targets) \cup {chexnet_targets[1]}

(***************************************************************************)
(* feature_string                                                          *)
(***************************************************************************)
\* Python's `x in [..]` and `x == y` on a float cell: NaN equals nothing.
PyEq(x, y) == x # NaN /\ y # NaN /\ x = y

PyIn(x, lst) == \E k \in 1..Len(lst) : PyEq(x, lst[k])

UOneQualifies_M2(v) == ~PyEq(v, Num(0))

UOneQualifies(v) == PyIn(v, <<Num(-1), Num(1)>>)

UZeroQualifies_M1(v) == PyIn(v, <<Num(-1), Num(1)>>)

UZeroQualifies(v) == PyEq(v, Num(1))

RECURSIVE UOneLoop(_, _, _)
UOneLoop(row, k, feature_list) ==
    IF k > Len(u_one_features) THEN feature_list
    ELSE UOneLoop(row, k + 1,
                  IF UOneQualifies(row[u_one_features[k]])
                  THEN Append(feature_list, <<u_one_features[k]>>)
                  ELSE feature_list)

RECURSIVE UZeroLoop(_, _, _)
UZeroLoop(row, k, feature_list) ==
    IF k > Len(u_zero_features) THEN feature_list
    ELSE UZeroLoop(row, k + 1,
                   IF UZeroQualifies(row[u_zero_features[k]])
                   THEN Append(feature_list, <<u_zero_features[k]>>)
                   ELSE feature_list)

\* str.join: the strings of lst with delim between consecutive ones.
RECURSIVE JoinRest(_, _)
JoinRest(delim, lst) ==
    IF Len(lst) = 0 THEN <<>>
    ELSE delim \o lst[1] \o JoinRest(delim, Tail(lst))

Join_M1(delim, lst) == IF Len(lst) = 0 THEN delim ELSE lst[1] \o JoinRest(delim, Tail(lst))

Join(delim, lst) == IF Len(lst) = 0 THEN <<>> ELSE lst[1] \o JoinRest(delim, Tail(lst))

feature_list_of_M1(row) ==
    UZeroLoop(row, 1, UOneLoop(row, 1, <<>>))
        \o (IF PyEq(row["No Finding"], Num(1)) THEN <<<<"No Finding">>>> ELSE <<>>)

feature_list_of_M2(row) == UOneLoop(row, 1, UZeroLoop(row, 1, <<>>))

feature_list_of(row) == UZeroLoop(row, 1, UOneLoop(row, 1, <<>>))

feature_string_M1(row) == Join(<<",">>, feature_list_of(row))

feature_string(row) == Join(<<";">>, feature_list_of(row))

(***************************************************************************)
(* Strings and data frames.                                                *)
(***************************************************************************)
\* str.split(sep, n): cut s at the first n occurrences of sep (all of
\* them when n < 0), scanning from the left.
RECURSIVE SplitScan_M1(_, _, _, _, _, _)
SplitScan_M1(s, k, sep, n, cur, parts) ==
    IF k > Len(s) THEN Append(parts, cur)
    ELSE IF s[k] = sep /\ (n < 0 \/ Len(parts) < n - 1)
         THEN SplitScan_M1(s, k + 1, sep, n, <<>>, Append(parts, cur))
         ELSE SplitScan_M1(s, k + 1, sep, n, Append(cur, s[k]), parts)

RECURSIVE SplitScan(_, _, _, _, _, _)
SplitScan(s, k, sep, n, cur, parts) ==
    IF k > Len(s) THEN Append(parts, cur)
    ELSE IF s[k] = sep /\ (n < 0 \/ Len(parts) < n)
         THEN SplitScan(s, k + 1, sep, n, <<>>, Append(parts, cur))
         ELSE SplitScan(s, k + 1, sep, n, Append(cur, s[k]), parts)

Split(s, sep, n) == SplitScan(s, 1, sep, n, <<>>, <<>>)

MaxOf(S) == CHOOSE m \in S : \A x \in S : x <= m

\* Series.str.split(sep, n, expand=True): one column per part, as many
\* columns as the longest row has parts, shorter rows padded with None.
ExpandWidth(df, sep, n) ==
    IF Len(df) = 0 THEN 0
    ELSE MaxOf({Len(Split(df[i]["Path"], sep, n)) : i \in 1..Len(df)})

ExpandCell(path, sep, n, j) ==
    IF Len(Split(path, sep, n)) >= j + 1 THEN Split(path, sep, n)[j + 1] ELSE None

\* df[col] = values
SetCol(df, col, values) == [i \in 1..Len(df) |-> (col :> values[i]) @@ df[i]]

\* df[col] = df.Path.str.split(sep, n, True)[j]; the column lookup [j]
\* raises KeyError when no row has j + 1 parts.
HasSplitCol(df, sep, n, j) == ExpandWidth(df, sep, n) >= j + 1

AssignSplitCol(df, col, sep, n, j) ==
    SetCol(df, col, [i \in 1..Len(df) |-> ExpandCell(df[i]["Path"], sep, n, j)])

Fillna(v, fill) == IF v = None THEN fill ELSE v

ApplyFeatureString(df) ==
    SetCol(df, "feature_string",
           [i \in 1..Len(df) |-> Fillna(feature_string(df[i]), <<>>)])

(***************************************************************************)
(* Notebook cells 9 to 12: the derived columns.                            *)
(***************************************************************************)
Cell9 ==
    /\ pc = "cell9"
    /\ full_train_df' = SetCol(full_train_df, "train_valid",
                               [i \in 1..Len(full_train_df) |-> FALSE])
    /\ full_valid_df' = SetCol(full_valid_df, "train_valid",
                               [i \in 1..Len(full_valid_df) |-> TRUE])
    /\ pc' = "cell10"
    /\ UNCHANGED <<full_df, files, data, learn, call, fit>>

Cell10 ==
    /\ pc = "cell10"
    /\ LET t1 == AssignSplitCol(full_train_df, "patient", "/", 3, 2)
           t2 == AssignSplitCol(t1, "study", "/", 4, 3)
           v1 == AssignSplitCol(full_valid_df, "patient", "/", 3, 2)
           v2 == AssignSplitCol(v1, "study", "/", 4, 3)
       IN  IF ~HasSplitCol(full_train_df, "/", 3, 2)
           THEN /\ pc' = "KeyError"
                /\ UNCHANGED <<full_train_df, full_valid_df>>
           ELSE IF ~HasSplitCol(full_train_df, "/", 4, 3)
           THEN /\ pc' = "KeyError"
                /\ full_train_df' = t1
                /\ UNCHANGED full_valid_df
           ELSE IF ~HasSplitCol(full_valid_df, "/", 3, 2)
           THEN /\ pc' = "KeyError"
                /\ full_train_df' = t2
                /\ UNCHANGED full_valid_df
           ELSE IF ~HasSplitCol(full_valid_df, "/", 4, 3)
           THEN /\ pc' = "KeyError"
                /\ full_train_df' = t2
                /\ full_valid_df' = v1
           ELSE /\ pc' = "cell11"
                /\ full_train_df' = t2
                /\ full_valid_df' = v2
    /\ UNCHANGED <<full_df, files, data, learn, call, fit>>

Cell11 ==
    /\ pc = "cell11"
    /\ full_df' = full_train_df \o full_valid_df
    /\ pc' = "cell12"
    /\ UNCHANGED <<full_train_df, full_valid_df, files, data, learn, call, fit>>

Cell12 ==
    /\ pc = "cell12"
    /\ full_df' = ApplyFeatureString(full_df)
    /\ pc' = "cell63"
    /\ UNCHANGED <<full_train_df, full_valid_df, files, data, learn, call, fit>>

CallFeatureString_M1 ==
    /\ pc \in {"cell63", "ready"}
    /\ \E i \in 1..Len(full_df) :
          /\ call' = [op |-> "feature_string", row |-> full_df[i],
                      result |-> feature_string(full_df[i])]
          /\ full_df' = [full_df EXCEPT ![i]["Atelectasis"] = Num(1)]
    /\ UNCHANGED <<full_train_df, full_valid_df, files, data, learn, pc, fit>>

\* A direct call of feature_string on row i of full_df.
CallFeatureString ==
    /\ pc \in {"cell63", "ready"}
    /\ \E i \in 1..Len(full_df) :
           call' = [op |-> "feature_string", row |-> full_df[i],
                    result |-> feature_string(full_df[i])]
    /\ UNCHANGED <<full_train_df, full_valid_df, full_df, files, data, learn, pc, fit>>

(***************************************************************************)
(* groupby(['patient','study'])[classes].max()                             *)
(***************************************************************************)
\* Characters in code-point order, for the sorted group index.
AtomOrder == <<"/", "a", "d", "i", "p", "q", "s", "t", "v">>

Ord(c) == CHOOSE k \in 1..Len(AtomOrder) : AtomOrder[k] = c

RECURSIVE StrLess(_, _)
StrLess(a, b) ==
    IF Len(b) = 0 THEN FALSE
    ELSE IF Len(a) = 0 THEN TRUE
    ELSE IF a[1] = b[1] THEN StrLess(Tail(a), Tail(b))
    ELSE Ord(a[1]) < Ord(b[1])

KeyLess(k1, k2) == StrLess(k1[1], k2[1]) \/ (k1[1] = k2[1] /\ StrLess(k1[2], k2[2]))

KeyOf_M1(row) == <<row["study"], row["study"]>>

KeyOf(row) == <<row["patient"], row["study"]>>

\* Rows with a missing key are left out of every group.
HasKey(row) == row["patient"] # None /\ row["study"] # None

GroupKeys(df) == {KeyOf(df[i]) : i \in {r \in 1..Len(df) : HasKey(df[r])}}

RECURSIVE SortKeys(_)
SortKeys(K) ==
    IF K = {} THEN <<>>
    ELSE LET least == CHOOSE k \in K : \A o \in K \ {k} : KeyLess(k, o)
         IN  <<least>> \o SortKeys(K \ {least})

\* The running maximum of one cell: a NaN value is skipped.
RunMax_M1(acc, v) == IF v = NaN THEN acc ELSE IF acc = NaN \/ v < acc THEN v ELSE acc

RunMax_M2(acc, v) == IF v = NaN THEN acc ELSE v

RunMax(acc, v) == IF v = NaN THEN acc ELSE IF acc = NaN \/ v > acc THEN v ELSE acc

\* One pass over the rows, keeping for every group and column the
\* maximum seen so far (NaN while no value was seen).
RECURSIVE GroupMaxScan(_, _, _, _)
GroupMaxScan(df, cols, r, acc) ==
    IF r > Len(df) THEN acc
    ELSE IF ~HasKey(df[r]) THEN GroupMaxScan(df, cols, r + 1, acc)
    ELSE LET key == KeyOf(df[r])
         IN  GroupMaxScan(df, cols, r + 1,
                 [acc EXCEPT ![key] =
                     [j \in 1..Len(cols) |-> RunMax(acc[key][j], df[r][cols[j]])]])

GroupIndex(df) == SortKeys(GroupKeys(df))

GroupByMax_M1(df, cols) ==
    LET acc == GroupMaxScan(df, cols, 2,
                   [key \in GroupKeys(df) |-> [j \in 1..Len(cols) |-> NaN]])
        index == GroupIndex(df)
    IN  [g \in 1..Len(index) |-> acc[index[g]]]

\* .values of the grouped maximum: one row per group in index order,
\* one position per class.
GroupByMax(df, cols) ==
    LET acc == GroupMaxScan(df, cols, 1,
                   [key \in GroupKeys(df) |-> [j \in 1..Len(cols) |-> NaN]])
        index == GroupIndex(df)
    IN  [g \in 1..Len(index) |-> acc[index[g]]]

RECURSIVE AssignPreds_M1(_, _, _, _)
AssignPreds_M1(df, classes, preds, i) ==
    IF i > Len(classes) THEN df
    ELSE AssignPreds_M1(SetCol(df, classes[i],
                               [r \in 1..Len(df) |-> preds[Len(df) + 1 - r][i]]),
                        classes, preds, i + 1)

\* for i, c in enumerate(classes): df[c] = preds[:, i]
RECURSIVE AssignPreds(_, _, _, _)
AssignPreds(df, classes, preds, i) ==
    IF i > Len(classes) THEN df
    ELSE AssignPreds(SetCol(df, classes[i], [r \in 1..Len(df) |-> preds[r][i]]),
                     classes, preds, i + 1)

Column(matrix, i) == [g \in 1..Len(matrix) |-> matrix[g][i]]

(***************************************************************************)
(* Fractions, for the scores and their average.                            *)
(***************************************************************************)
RECURSIVE Gcd(_, _)
Gcd(a, b) == IF b = 0 THEN a ELSE Gcd(b, a % b)

\* den = 0 stands for the float nan of a division by zero.
Reduce(q) ==
    IF q.den = 0 THEN [num |-> 0, den |-> 0]
    ELSE LET g == Gcd(q.num, q.den) IN [num |-> q.num \div g, den |-> q.den \div g]

RatAdd(q1, q2) == Reduce([num |-> q1.num * q2.den + q2.num * q1.den, den |-> q1.den * q2.den])

RatDiv(q, n) == Reduce([num |-> q.num, den |-> q.den * n])

RECURSIVE RatSum(_)
RatSum(qs) == IF Len(qs) = 0 THEN [num |-> 0, den |-> 1] ELSE RatAdd(qs[1], RatSum(Tail(qs)))

\* sum(list(d.values())) over the keys K of the dict d.
RECURSIVE SumValues(_, _)
SumValues(d, K) ==
    IF K = {} THEN [num |-> 0, den |-> 1]
    ELSE LET k == CHOOSE x \in K : TRUE IN RatAdd(d[k], SumValues(d, K \ {k}))

RECURSIVE Pow10(_)
Pow10(e) == IF e = 0 THEN 1 ELSE 10 * Pow10(e - 1)

\* The number of decimal places at which q in (0, 1] has three
\* significant digits.
RECURSIVE Places(_, _)
Places(q, e) == IF q.num * Pow10(e) >= 100 * q.den THEN e ELSE Places(q, e + 1)

\* The value of f'{q:.3}' for 0 <= q <= 1: q to three significant digits,
\* to nearest and a tie to the even digit.
Format3(q) ==
    IF q.den = 0 \/ q.num = 0 THEN q
    ELSE LET e == Places(q, 0)
             m == (q.num * Pow10(e)) \div q.den
             r == (q.num * Pow10(e)) % q.den
             up == 2 * r > q.den \/ (2 * r = q.den /\ m % 2 = 1)
         IN  Reduce([num |-> IF up THEN m + 1 ELSE m, den |-> Pow10(e)])

avg_auc_of_M1(auc_scores) ==
    Format3(RatDiv(SumValues(auc_scores, DOMAIN auc_scores), Cardinality(DOMAIN auc_scores)))

\* avg_auc = sum(list(auc_scores.values()))/len(auc_scores.values())
avg_auc_of(auc_scores) ==
    RatDiv(SumValues(auc_scores, DOMAIN auc_scores), Cardinality(DOMAIN auc_scores))

\* The numbers in the printed lines: the score of every target and the
\* average, each formatted with :.3.
Printed(auc_scores, avg_auc) ==
    [auc |-> [k \in Range(chexpert_targets) |-> Format3(auc_scores[k])],
     avg |-> Format3(avg_auc)]

(***************************************************************************)
(* roc_auc_score(y_true, y_score)                                          *)
(***************************************************************************)
Unique(v) == {v[g] : g \in 1..Len(v)}

IsIntegral(x) == x % Scale = 0

\* roc_auc_score raises ValueError on a y_true that holds a NaN, a
\* fractional value, or other than two distinct labels.
AucRaises_M1(y_true) ==
    \/ NaN \in Unique(y_true)
    \/ \E x \in Unique(y_true) : x % Scale # 0
    \/ Cardinality(Unique(y_true)) \notin {1, 2}

AucRaises(y_true) ==
    \/ NaN \in Unique(y_true)
    \/ \E x \in Unique(y_true) : ~IsIntegral(x)
    \/ Cardinality(Unique(y_true)) # 2

PosLabel_M1(y_true) == CHOOSE x \in Unique(y_true) : \A o \in Unique(y_true) : x <= o

\* Of two labels the greater one is the positive class.
PosLabel(y_true) == MaxOf(Unique(y_true))

RECURSIVE DescendingSeq(_)
DescendingSeq(S) ==
    IF S = {} THEN <<>> ELSE <<MaxOf(S)>> \o DescendingSeq(S \ {MaxOf(S)})

Tps_M1(y_true, y_score, t) ==
    Cardinality({g \in 1..Len(y_true) : y_true[g] = PosLabel(y_true) /\ y_score[g] > t})

Tps(y_true, y_score, t) ==
    Cardinality({g \in 1..Len(y_true) : y_true[g] = PosLabel(y_true) /\ y_score[g] >= t})

Fps(y_true, y_score, t) ==
    Cardinality({g \in 1..Len(y_true) : y_true[g] # PosLabel(y_true) /\ y_score[g] >= t})

RECURSIVE Trapezoids_M1(_, _, _, _, _, _)
Trapezoids_M1(y_true, y_score, thr, k, fp0, tp0) ==
    IF k > Len(thr) THEN 0
    ELSE LET fp == Fps(y_true, y_score, thr[k])
             tp == Tps(y_true, y_score, thr[k])
         IN  (fp - fp0) * (tp + tp) + Trapezoids_M1(y_true, y_score, thr, k + 1, fp, tp)

\* Twice the area under the curve through the points (fps, tps) of the
\* distinct thresholds in decreasing order, by the trapezoidal rule.
RECURSIVE Trapezoids(_, _, _, _, _, _)
Trapezoids(y_true, y_score, thr, k, fp0, tp0) ==
    IF k > Len(thr) THEN 0
    ELSE LET fp == Fps(y_true, y_score, thr[k])
             tp == Tps(y_true, y_score, thr[k])
         IN  (fp - fp0) * (tp + tp0) + Trapezoids(y_true, y_score, thr, k + 1, fp, tp)

\* The score as the fraction num / den.
roc_auc_score(y_true, y_score) ==
    LET P == Cardinality({g \in 1..Len(y_true) : y_true[g] = PosLabel(y_true)})
        N == Len(y_true) - P
    IN  Reduce([num |-> Trapezoids(y_true, y_score, DescendingSeq(Unique(y_score)), 1, 0, 0),
                den |-> 2 * P * N])

(***************************************************************************)
(* get_sample_df, get_preds_per_study, validation_eval                     *)
(***************************************************************************)
TrainOnly(df) == SelectSeq(df, LAMBDA row : ~row["train_valid"])

ValidOnly(df) == SelectSeq(df, LAMBDA row : row["train_valid"])

UniquePatients(df) == {df[i]["patient"] : i \in 1..Len(df)}

get_sample_df_M1(sample_patients) ==
    SelectSeq(full_df, LAMBDA row : row["patient"] \in sample_patients)

\* sample_patients is the part of the unique patients that the random
\* mask keeps.
get_sample_df(sample_patients) ==
    SelectSeq(TrainOnly(full_df), LAMBDA row : row["patient"] \in sample_patients)
        \o ValidOnly(full_df)

\* The classes of a labelled data set: the names found in the label
\* strings of its training rows, sorted (chexpert_targets is sorted).
label_delim == ";"

LabelsOf(str) ==
    IF str = <<>> THEN {} ELSE {part[1] : part \in Range(Split(str, label_delim, -1))}

ClassesOf(df) ==
    SelectSeq(chexpert_targets,
              LAMBDA f : \E i \in 1..Len(df) :
                  ~df[i]["train_valid"] /\ f \in LabelsOf(df[i]["feature_string"]))

\* The scores a model gives to the validation images, one row per image
\* and one position per class.
Scores(shift, nrows, nclasses) ==
    [r \in 1..nrows |-> [j \in 1..nclasses |-> (shift * r + j) % (Scale + 1)]]

ScoreKey_M1(i) == chexpert_targets[Len(chexpert_targets) + 1 - i]

ScoreKey(i) == data.classes[i]

\* The error that stops the dict comprehension at index i, if any.
ScoreRaises(acts, i) ==
    IF i > Len(data.classes) \/ i > Len(learn.classes) THEN "IndexError"
    ELSE IF AucRaises(Column(acts, i)) THEN "ValueError"
    ELSE "none"

\* valid_df is the global full_valid_df as the call finds it.
validation_eval(valid_df) ==
    LET classes == learn.classes
        acts == GroupByMax(valid_df, classes)
        preds_df == AssignPreds(valid_df, classes, learn.preds, 1)
        preds == GroupByMax(preds_df, classes)
        n == Len(chexpert_targets)
        bad == {i \in 1..n : ScoreRaises(acts, i) # "none"}
        keys == {ScoreKey(i) : i \in 1..n}
        auc_scores == [k \in keys |->
                          LET i == MaxOf({x \in 1..n : ScoreKey(x) = k})
                          IN  roc_auc_score(Column(acts, i), Column(preds, i))]
        avg_auc == avg_auc_of(auc_scores)
        locals == [op |-> "validation_eval", index |-> GroupIndex(valid_df),
                   acts |-> acts, preds |-> preds]
    IN  IF bad # {}
        THEN [raised |-> ScoreRaises(acts, CHOOSE i \in bad : \A o \in bad : i <= o)] @@ locals
        ELSE IF Range(chexpert_targets) \ keys # {}
        THEN [raised |-> "KeyError"] @@ locals
        ELSE [raised |-> "none", auc_scores |-> auc_scores, avg_auc |-> avg_auc,
              printed |-> Printed(auc_scores, avg_auc), returned |-> avg_auc] @@ locals

\* An attribute that was not set yet.
NoAttribute == [missing |-> TRUE]

\* cbfs = [CheXpertEvalCallback, SaveCallback]
cbfs == <<"CheXpertEvalCallback", "SaveCallback">>

\* cnn_learner(data, densenet121, callback_fns=cbfs): the framework puts
\* its Recorder first; the callbacks themselves are made by fit, so the
\* two attributes of the learner do not exist yet.
NewLearner(classes, preds) ==
    [classes |-> classes, built |-> TRUE, preds |-> preds,
     callback_fns |-> <<"Recorder">> \o cbfs,
     che_xpert_eval_callback |-> NoAttribute, save_callback |-> NoAttribute]

\* cell 63: data = get_data(.., get_src(get_sample_df(0.02))) and
\* learn = cnn_learner(data, ..); a learner needs training rows.
Cell63 ==
    /\ pc = "cell63"
    /\ \E sample_patients \in SUBSET UniquePatients(TrainOnly(full_df)), shift \in ScoreLevels :
          LET df == get_sample_df(sample_patients)
          IN  /\ TrainOnly(df) # <<>>
              /\ data' = [classes |-> ClassesOf(df), built |-> TRUE]
              /\ learn' = NewLearner(ClassesOf(df),
                                     Scores(shift, Len(ValidOnly(df)), Len(ClassesOf(df))))
    /\ pc' = "ready"
    /\ UNCHANGED <<full_train_df, full_valid_df, full_df, files, call, fit>>

GetSampleDf ==
    /\ pc \in {"cell63", "ready"}
    /\ \E sample_patients \in SUBSET UniquePatients(TrainOnly(full_df)) :
          call' = [op |-> "get_sample_df", result |-> get_sample_df(sample_patients)]
    /\ UNCHANGED <<full_train_df, full_valid_df, full_df, files, data, learn, pc, fit>>

GetPredsPerStudy ==
    /\ pc = "ready"
    /\ LET df == AssignPreds(full_valid_df, learn.classes, learn.preds, 1)
       IN  /\ full_valid_df' = df
           /\ call' = [op |-> "get_preds_per_study", index |-> GroupIndex(df),
                       result |-> GroupByMax(df, learn.classes)]
    /\ UNCHANGED <<full_train_df, full_df, files, data, learn, pc, fit>>

ValidationEval ==
    /\ pc = "ready"
    /\ call' = validation_eval(full_valid_df)
    /\ UNCHANGED <<full_train_df, full_valid_df, full_df, files, data, learn, pc, fit>>

(***************************************************************************)
(* Inputs.                                                                 *)
(***************************************************************************)
NoData == [classes |-> <<>>, built |-> FALSE]

NoLearn == [classes |-> <<>>, preds |-> <<>>, built |-> FALSE]

NoCall == [op |-> "none"]

NoFit == [running |-> FALSE]

FileRow(path, labels) == ("Path" :> path) @@ labels

\* train/patient/study/view paths with one-character segments
PathOf(split, patient, study) == <<"d", "/", split, "/", patient, "/", study, "/", "i">>

(***************************************************************************)
(* The notebook from cell 9 on, on small tables.                           *)
(***************************************************************************)
LabelRow(ones, rest) == [f \in FindingColumns |-> IF f \in ones THEN Num(1) ELSE rest]

ValidLabelRows ==
    { LabelRow({"Atelectasis", "Consolidation", "Pleural Effusion"}, Num(0)),
      LabelRow({"Cardiomegaly", "Edema", "No Finding"}, Num(0)),
      [LabelRow({"Pleural Effusion"}, Num(-1)) EXCEPT !["Consolidation"] = NaN, !["Edema"] = NaN] }

TrainLabelRows ==
    { LabelRow(Range(chexpert_targets), Num(0)),
      LabelRow({"Cardiomegaly"}, Num(-1)) }

ValidPaths ==
    { PathOf("v", "p", "s"), PathOf("v", "q", "s"), <<"d", "/", "v", "/", "p">> }

TrainPaths == { PathOf("t", "p", "s") }

Tables(paths, labels, maxrows) ==
    UNION {[1..n -> {FileRow(path, l) : path \in paths, l \in labels}] : n \in 1..maxrows}

Init ==
    /\ files \in [train : Tables(TrainPaths, TrainLabelRows, MaxTrainRows),
                   valid : Tables(ValidPaths, ValidLabelRows, MaxValidRows)]
    /\ full_train_df = files.train
    /\ full_valid_df = files.valid
    /\ full_df = <<>>
    /\ data = NoData
    /\ fit = NoFit
    /\ learn = NoLearn
    /\ pc = "cell9"
    /\ call = NoCall

Next ==
    \/ Cell9
    \/ Cell10
    \/ Cell11
    \/ Cell12
    \/ Cell63
    \/ CallFeatureString
    \/ GetSampleDf
    \/ GetPredsPerStudy
    \/ ValidationEval

Spec == Init /\ [][Next]_vars

(***************************************************************************)
(* Label derivation on one row with every combination of raw values.       *)
(***************************************************************************)
InitLabel ==
    /\ \E labels \in [FindingColumns -> RawValues] :
          /\ files = [train |-> <<>>, valid |-> <<FileRow(PathOf("v", "p", "s"), labels)>>]
          /\ full_valid_df = <<[train_valid |-> TRUE, patient |-> <<"p">>, study |-> <<"s">>]
                                @@ FileRow(PathOf("v", "p", "s"), labels)>>
    /\ full_train_df = <<>>
    /\ full_df = full_train_df \o full_valid_df
    /\ data = NoData
    /\ fit = NoFit
    /\ learn = NoLearn
    /\ pc = "cell12"
    /\ call = NoCall

NextLabel == Cell12 \/ CallFeatureString

SpecLabel == InitLabel /\ [][NextLabel]_vars

(***************************************************************************)
(* Path parsing on a table holding one arbitrary path.                     *)
(***************************************************************************)
PathAtoms == {"/", "a"}

Paths == UNION {[1..n -> PathAtoms] : n \in 0..MaxPathLen}

NoLabels == [f \in FindingColumns |-> Num(0)]

InitPath ==
    /\ \E path \in Paths, other \in {PathOf("v", "p", "s"), <<"d", "/", "v">>} :
          files = [train |-> <<FileRow(PathOf("t", "p", "s"), NoLabels)>>,
                   valid |-> <<FileRow(path, NoLabels), FileRow(other, NoLabels)>>]
    /\ full_train_df = files.train
    /\ full_valid_df = files.valid
    /\ full_df = <<>>
    /\ data = NoData
    /\ fit = NoFit
    /\ learn = NoLearn
    /\ pc = "cell9"
    /\ call = NoCall

NextPath == Cell9 \/ Cell10 \/ Cell11

SpecPath == InitPath /\ [][NextPath]_vars

(***************************************************************************)
(* roc_auc_score on its own: every truth vector over the two labels and    *)
(* every score vector of up to MaxStudies studies.                         *)
(***************************************************************************)
Vectors(S) == UNION {[1..n -> S] : n \in 1..MaxStudies}

InitAuc ==
    /\ files = [train |-> <<>>, valid |-> <<>>]
    /\ full_train_df = <<>>
    /\ full_valid_df = <<>>
    /\ full_df = <<>>
    /\ data = NoData
    /\ fit = NoFit
    /\ learn = NoLearn
    /\ pc = "roc_auc_score"
    /\ \E y_true \in Vectors({Num(0), Num(1)}), y_score \in Vectors(ScoreLevels) :
          /\ Len(y_true) = Len(y_score)
          /\ call = [op |-> "arguments", y_true |-> y_true, y_score |-> y_score]

RocAucScore ==
    /\ pc = "roc_auc_score"
    /\ call.op = "arguments"
    /\ call' = IF AucRaises(call.y_true)
               THEN [op |-> "roc_auc_score", y_true |-> call.y_true,
                     y_score |-> call.y_score, raised |-> "ValueError"]
               ELSE [op |-> "roc_auc_score", y_true |-> call.y_true,
                     y_score |-> call.y_score, raised |-> "none",
                     result |-> roc_auc_score(call.y_true, call.y_score)]
    /\ UNCHANGED <<full_train_df, full_valid_df, full_df, files, data, learn, pc, fit>>

NextAuc == RocAucScore

SpecAuc == InitAuc /\ [][NextAuc]_vars

(***************************************************************************)
(* The report at the end of validation_eval on its own, in both notebooks: *)
(* every dict of five scores with denominators up to MaxDen.               *)
(***************************************************************************)
AucValues ==
    {Reduce([num |-> x[1], den |-> x[2]]) :
        x \in {y \in (0..MaxDen) \X (1..MaxDen) : y[1] <= y[2]}}

InitReport ==
    /\ files = [train |-> <<>>, valid |-> <<>>]
    /\ full_train_df = <<>>
    /\ full_valid_df = <<>>
    /\ full_df = <<>>
    /\ data = NoData
    /\ fit = NoFit
    /\ learn = NoLearn
    /\ pc \in {"part_000", "replicating_chexpert"}
    /\ \E auc_scores \in [Range(chexpert_targets) -> AucValues] :
          call = [op |-> "auc_scores", auc_scores |-> auc_scores]

\* part_000: the prints, then return avg_auc.
ReportPart000 ==
    /\ pc = "part_000"
    /\ call.op = "auc_scores"
    /\ LET avg_auc == avg_auc_of(call.auc_scores)
       IN  call' = [op |-> "report", auc_scores |-> call.auc_scores, avg_auc |-> avg_auc,
                    printed |-> Printed(call.auc_scores, avg_auc), returned |-> avg_auc]
    /\ UNCHANGED <<full_train_df, full_valid_df, full_df, files, data, learn, pc, fit>>

\* replicating_chexpert.ipynb: the function ends with the prints and
\* returns None.
ReportReplicating ==
    /\ pc = "replicating_chexpert"
    /\ call.op = "auc_scores"
    /\ LET avg_auc == avg_auc_of(call.auc_scores)
       IN  call' = [op |-> "report", auc_scores |-> call.auc_scores, avg_auc |-> avg_auc,
                    printed |-> Printed(call.auc_scores, avg_auc), returned |-> None]
    /\ UNCHANGED <<full_train_df, full_valid_df, full_df, files, data, learn, pc, fit>>

NextReport == ReportPart000 \/ ReportReplicating

SpecReport == InitReport /\ [][NextReport]_vars

(***************************************************************************)
(* Training: lr_find_no_cbs, fit_one_cycle and the two callbacks, in both  *)
(* notebooks, on a learner built from a fixed small table.                 *)
(***************************************************************************)
\* self.avg_auc = 0: a Python int, not a float.
IntZero == [int |-> 0]

\* _order of a callback: SaveCallback._order = 99 in part_000; a callback
\* without one has the framework's 0, the Recorder the framework's -10.
OrderOf(notebook, cb) ==
    IF cb = "SaveCallback" /\ notebook = "part_000" THEN 99
    ELSE IF cb = "Recorder" THEN -10
    ELSE 0

SortCallbacks_M1(notebook, cbs) == cbs

\* sorted(callbacks, key=_order): stable, so equal orders keep list order.
RECURSIVE SortCallbacks(_, _)
SortCallbacks(notebook, cbs) ==
    IF cbs = <<>> THEN <<>>
    ELSE LET k == CHOOSE i \in 1..Len(cbs) :
                     \A j \in 1..Len(cbs) :
                         \/ OrderOf(notebook, cbs[i]) < OrderOf(notebook, cbs[j])
                         \/ OrderOf(notebook, cbs[i]) = OrderOf(notebook, cbs[j]) /\ i <= j
         IN  <<cbs[k]>> \o SortCallbacks(notebook,
                               [j \in 1..(Len(cbs) - 1) |-> IF j < k THEN cbs[j] ELSE cbs[j + 1]])

\* CheXpertEvalCallback.__init__ and SaveCallback.__init__
NewEvalCallback(notebook) ==
    IF notebook = "part_000" THEN [skip |-> FALSE, avg_auc |-> IntZero] ELSE [skip |-> FALSE]

NewSaveCallback == [epoch |-> 0, skip |-> FALSE]

\* The name SaveCallback gives to learn.save.
CheckpointName(notebook, epoch, now, avg_auc) ==
    IF notebook = "part_000"
    THEN [minute |-> now, auc |-> Format3(avg_auc)]
    ELSE [size |-> "img_size", epoch |-> epoch, now |-> now]

Prepared(df, train_valid) ==
    AssignSplitCol(
        AssignSplitCol(SetCol(df, "train_valid", [i \in 1..Len(df) |-> train_valid]),
                       "patient", "/", 3, 2),
        "study", "/", 4, 3)

\* Validation tables of two studies: one where every target has both
\* labels, one where a target has a single label.
TrainValidTables ==
    { <<FileRow(PathOf("v", "p", "s"),
                LabelRow({"Atelectasis", "Consolidation", "Pleural Effusion"}, Num(0))),
        FileRow(PathOf("v", "q", "s"), LabelRow({"Cardiomegaly", "Edema"}, Num(0)))>>,
      <<FileRow(PathOf("v", "p", "s"),
                LabelRow({"Atelectasis", "Consolidation", "Pleural Effusion"}, Num(0))),
        FileRow(PathOf("v", "q", "s"), LabelRow({"Edema"}, Num(0)))>> }

\* The state after cell 63.
InitTrain ==
    /\ \E valid \in TrainValidTables :
          files = [train |-> <<FileRow(PathOf("t", "p", "s"),
                                       LabelRow(Range(chexpert_targets), Num(0)))>>,
                   valid |-> valid]
    /\ full_train_df = Prepared(files.train, FALSE)
    /\ full_valid_df = Prepared(files.valid, TRUE)
    /\ full_df = ApplyFeatureString(full_train_df \o full_valid_df)
    /\ data = [classes |-> ClassesOf(full_df), built |-> TRUE]
    /\ learn = NewLearner(ClassesOf(full_df),
                          Scores(0, Len(full_valid_df), Len(ClassesOf(full_df))))
    /\ pc = "ready"
    /\ call = NoCall
    /\ \E notebook \in {"part_000", "replicating_chexpert"} :
          fit = [running |-> FALSE, notebook |-> notebook, now |-> 0, lr_finds |-> 0,
                 epochs |-> 0, epoch |-> 0, callbacks |-> <<>>, queue |-> <<>>,
                 received |-> 0, evals |-> <<>>, saved |-> <<>>]

LrFindReturns_M1 ==
    /\ pc = "ready"
    /\ fit.lr_finds < MaxLrFinds
    /\ learn' = [learn EXCEPT !.callback_fns = @ \o cbfs]
    /\ call' = [op |-> "lr_find_no_cbs", before |-> learn.callback_fns,
                during |-> learn.callback_fns, raised |-> "none"]
    /\ fit' = [fit EXCEPT !.lr_finds = @ + 1]
    /\ UNCHANGED <<full_train_df, full_valid_df, full_df, files, data, pc>>

LrFindReturns ==
    /\ pc = "ready"
    /\ fit.lr_finds < MaxLrFinds
    /\ LET kept == SelectSeq(learn.callback_fns, LAMBDA cbf : cbf \notin Range(cbfs))
       IN  /\ learn' = [learn EXCEPT !.callback_fns = kept \o cbfs]
           /\ call' = [op |-> "lr_find_no_cbs", before |-> learn.callback_fns,
                       during |-> kept, raised |-> "none"]
    /\ fit' = [fit EXCEPT !.lr_finds = @ + 1]
    /\ UNCHANGED <<full_train_df, full_valid_df, full_df, files, data, pc>>

\* lr_find raises: the last line of lr_find_no_cbs is not reached.
LrFindRaises ==
    /\ pc = "ready"
    /\ fit.lr_finds < MaxLrFinds
    /\ LET kept == SelectSeq(learn.callback_fns, LAMBDA cbf : cbf \notin Range(cbfs))
       IN  /\ learn' = [learn EXCEPT !.callback_fns = kept]
           /\ call' = [op |-> "lr_find_no_cbs", before |-> learn.callback_fns,
                       during |-> kept, raised |-> "Exception"]
    /\ fit' = [fit EXCEPT !.lr_finds = @ + 1]
    /\ UNCHANGED <<full_train_df, full_valid_df, full_df, files, data, pc>>

\* learn.fit_one_cycle(n, ..): fit makes the callbacks from callback_fns,
\* each setting itself as an attribute of the learner, and sorts them.
FitOneCycle ==
    /\ pc = "ready"
    /\ fit.epochs = 0
    /\ \E n \in 1..MaxEpochs :
          fit' = [fit EXCEPT !.running = TRUE, !.epochs = n,
                             !.callbacks = SortCallbacks(fit.notebook, learn.callback_fns)]
    /\ learn' = [learn EXCEPT
                    !.che_xpert_eval_callback =
                        IF "CheXpertEvalCallback" \in Range(learn.callback_fns)
                        THEN NewEvalCallback(fit.notebook) ELSE @,
                    !.save_callback =
                        IF "SaveCallback" \in Range(learn.callback_fns)
                        THEN NewSaveCallback ELSE @]
    /\ pc' = "train"
    /\ UNCHANGED <<full_train_df, full_valid_df, full_df, files, data, call>>

\* One epoch of training changes the scores the learner gives.
TrainEpoch ==
    /\ pc = "train"
    /\ \E shift \in ScoreLevels :
          learn' = [learn EXCEPT !.preds = Scores(shift, Len(full_valid_df), Len(learn.classes))]
    /\ fit' = [fit EXCEPT !.queue = fit.callbacks]
    /\ pc' = "on_epoch_end"
    /\ UNCHANGED <<full_train_df, full_valid_df, full_df, files, data, call>>

RecorderOnEpochEnd ==
    /\ pc = "on_epoch_end"
    /\ fit.queue # <<>> /\ Head(fit.queue) = "Recorder"
    /\ fit' = [fit EXCEPT !.queue = Tail(@)]
    /\ UNCHANGED <<full_train_df, full_valid_df, full_df, files, data, learn, pc, call>>

CheXpertEvalCallbackOnEpochEnd_M1 ==
    /\ pc = "on_epoch_end"
    /\ fit.queue # <<>> /\ Head(fit.queue) = "CheXpertEvalCallback"
    /\ IF learn.che_xpert_eval_callback.skip
       THEN /\ fit' = [fit EXCEPT !.queue = Tail(@)]
            /\ UNCHANGED <<learn, pc, call>>
       ELSE LET r == validation_eval(full_valid_df)
            IN  /\ call' = r
                /\ IF r.raised # "none"
                   THEN /\ fit' = [fit EXCEPT !.queue = Tail(@)]
                        /\ UNCHANGED <<learn, pc>>
                   ELSE /\ fit' = [fit EXCEPT !.queue = Tail(@),
                                   !.evals = Append(@, [epoch |-> fit.epoch + 1,
                                                        avg_auc |-> r.avg_auc])]
                        /\ learn' = IF fit.notebook = "part_000"
                                    THEN [learn EXCEPT !.che_xpert_eval_callback.avg_auc = r.returned]
                                    ELSE learn
                        /\ UNCHANGED pc
    /\ UNCHANGED <<full_train_df, full_valid_df, full_df, files, data>>

\* CheXpertEvalCallback.on_epoch_end; an error of validation_eval ends fit.
CheXpertEvalCallbackOnEpochEnd ==
    /\ pc = "on_epoch_end"
    /\ fit.queue # <<>> /\ Head(fit.queue) = "CheXpertEvalCallback"
    /\ IF learn.che_xpert_eval_callback.skip
       THEN /\ fit' = [fit EXCEPT !.queue = Tail(@)]
            /\ UNCHANGED <<learn, pc, call>>
       ELSE LET r == validation_eval(full_valid_df)
            IN  /\ call' = r
                /\ IF r.raised # "none"
                   THEN /\ pc' = r.raised
                        /\ fit' = [fit EXCEPT !.running = FALSE]
                        /\ UNCHANGED learn
                   ELSE /\ fit' = [fit EXCEPT !.queue = Tail(@),
                                   !.evals = Append(@, [epoch |-> fit.epoch + 1,
                                                        avg_auc |-> r.avg_auc])]
                        /\ learn' = IF fit.notebook = "part_000"
                                    THEN [learn EXCEPT !.che_xpert_eval_callback.avg_auc = r.returned]
                                    ELSE learn
                        /\ UNCHANGED pc
    /\ UNCHANGED <<full_train_df, full_valid_df, full_df, files, data>>

SaveCallbackOnEpochEnd_M1 ==
    /\ pc = "on_epoch_end"
    /\ fit.queue # <<>> /\ Head(fit.queue) = "SaveCallback"
    /\ IF learn.save_callback.skip
       THEN /\ fit' = [fit EXCEPT !.queue = Tail(@), !.received = @ + 1]
            /\ UNCHANGED <<learn, pc>>
       ELSE LET epoch == learn.save_callback.epoch + 1
            IN  /\ learn' = [learn EXCEPT !.save_callback.epoch = epoch]
                /\ IF fit.notebook = "part_000" /\ learn.che_xpert_eval_callback = NoAttribute
                   THEN /\ pc' = "AttributeError"
                        /\ fit' = [fit EXCEPT !.running = FALSE, !.received = @ + 1]
                   ELSE IF fit.notebook = "part_000"
                           /\ learn.che_xpert_eval_callback.avg_auc = IntZero
                   THEN /\ pc' = "ValueError"
                        /\ fit' = [fit EXCEPT !.running = FALSE, !.received = @ + 1]
                   ELSE /\ fit' = [fit EXCEPT
                                      !.queue = Tail(@), !.received = @ + 1,
                                      !.saved = Append(@,
                                          [epoch |-> fit.epoch + 1,
                                           name |-> CheckpointName(fit.notebook, epoch, fit.now,
                                                        IF fit.notebook = "part_000"
                                                        THEN learn.che_xpert_eval_callback.avg_auc
                                                        ELSE None)])]
                        /\ UNCHANGED pc
    /\ UNCHANGED <<full_train_df, full_valid_df, full_df, files, data, call>>

\* SaveCallback.on_epoch_end.  In part_000 the name reads avg_auc of the
\* learner's che_xpert_eval_callback; formatting the int 0 with :.3
\* raises ValueError.
SaveCallbackOnEpochEnd ==
    /\ pc = "on_epoch_end"
    /\ fit.queue # <<>> /\ Head(fit.queue) = "SaveCallback"
    /\ LET epoch == learn.save_callback.epoch + 1
       IN  /\ learn' = [learn EXCEPT !.save_callback.epoch = epoch]
           /\ IF learn.save_callback.skip
              THEN /\ fit' = [fit EXCEPT !.queue = Tail(@), !.received = @ + 1]
                   /\ UNCHANGED pc
              ELSE IF fit.notebook = "part_000" /\ learn.che_xpert_eval_callback = NoAttribute
              THEN /\ pc' = "AttributeError"
                   /\ fit' = [fit EXCEPT !.running = FALSE, !.received = @ + 1]
              ELSE IF fit.notebook = "part_000"
                      /\ learn.che_xpert_eval_callback.avg_auc = IntZero
              THEN /\ pc' = "ValueError"
                   /\ fit' = [fit EXCEPT !.running = FALSE, !.received = @ + 1]
              ELSE /\ fit' = [fit EXCEPT
                                 !.queue = Tail(@), !.received = @ + 1,
                                 !.saved = Append(@,
                                     [epoch |-> fit.epoch + 1,
                                      name |-> CheckpointName(fit.notebook, epoch, fit.now,
                                                   IF fit.notebook = "part_000"
                                                   THEN learn.che_xpert_eval_callback.avg_auc
                                                   ELSE None)])]
                   /\ UNCHANGED pc
    /\ UNCHANGED <<full_train_df, full_valid_df, full_df, files, data, call>>

\* Every callback was called: the next epoch, or fit returns.
EpochEndDone ==
    /\ pc = "on_epoch_end"
    /\ fit.queue = <<>>
    /\ fit' = [fit EXCEPT !.epoch = @ + 1, !.running = (fit.epoch + 1 < fit.epochs)]
    /\ pc' = IF fit.epoch + 1 < fit.epochs THEN "train" ELSE "ready"
    /\ UNCHANGED <<full_train_df, full_valid_df, full_df, files, data, learn, call>>

\* The skip attributes are set from outside, between two epochs.
SetEvalSkip ==
    /\ pc = "train"
    /\ learn.che_xpert_eval_callback # NoAttribute
    /\ \E b \in BOOLEAN : learn' = [learn EXCEPT !.che_xpert_eval_callback.skip = b]
    /\ UNCHANGED <<full_train_df, full_valid_df, full_df, files, data, pc, call, fit>>

SetSaveSkip ==
    /\ pc = "train"
    /\ learn.save_callback # NoAttribute
    /\ \E b \in BOOLEAN : learn' = [learn EXCEPT !.save_callback.skip = b]
    /\ UNCHANGED <<full_train_df, full_valid_df, full_df, files, data, pc, call, fit>>

\* datetime.datetime.now() moves on while the run lasts.
Tick ==
    /\ fit.running
    /\ fit.now < MaxMinutes
    /\ fit' = [fit EXCEPT !.now = @ + 1]
    /\ UNCHANGED <<full_train_df, full_valid_df, full_df, files, data, learn, pc, call>>

NextTrain ==
    \/ LrFindReturns
    \/ LrFindRaises
    \/ FitOneCycle
    \/ TrainEpoch
    \/ RecorderOnEpochEnd
    \/ CheXpertEvalCallbackOnEpochEnd
    \/ SaveCallbackOnEpochEnd
    \/ EpochEndDone
    \/ SetEvalSkip
    \/ SetSaveSkip
    \/ Tick

SpecTrain == InitTrain /\ [][NextTrain]_vars

(***************************************************************************)
(* Properties of the label deriver.                                        *)
(***************************************************************************)
TargetFindings == Range(chexpert_targets)

\* The findings named in a label string.
NamedIn(str) == {part[1] : part \in {q \in Range(Split(str, ";", -1)) : Len(q) = 1}}

\* The feature policy as the data model states it.
PolicyIncludes(f, v) ==
    \/ f \in Range(u_one_features) /\ v \in {Num(-1), Num(1)}
    \/ f \in Range(u_zero_features) /\ v = Num(1)

NoRepeats(seq) == \A a, b \in 1..Len(seq) : seq[a] = seq[b] => a = b

TriState(row) == \A f \in TargetFindings : row[f] \in {Num(-1), Num(0), Num(1)}

Labeled == pc = "cell63" /\ Len(full_df) > 0

\* C1: for a row whose raw values are all in {-1, 0, 1}, feature_string
\* names a target finding iff the finding is uncertain-as-positive with
\* raw value -1 or 1, or uncertain-as-negative with raw value exactly 1.
C1_DerivedSetIffPolicy ==
    (call.op = "feature_string" /\ TriState(call.row)) =>
        \A f \in TargetFindings :
            f \in NamedIn(call.result) <=> PolicyIncludes(f, call.row[f])

C1_Witness ==
    /\ call.op = "feature_string"
    /\ TriState(call.row)
    /\ call.row["Edema"] = Num(-1) /\ "Edema" \in NamedIn(call.result)
    /\ call.row["Cardiomegaly"] = Num(-1) /\ "Cardiomegaly" \notin NamedIn(call.result)
    /\ call.row["Consolidation"] = Num(1) /\ "Consolidation" \in NamedIn(call.result)

\* C7: a raw value outside {-1, 0, 1, blank} in a column feature_string
\* reads makes the derivation fail with InvalidLabelValueError.
HasInvalidValue(row) ==
    \E f \in TargetFindings : row[f] \notin {Num(-1), Num(0), Num(1), NaN}

C7_InvalidValueRaises ==
    (call.op = "feature_string" /\ HasInvalidValue(call.row)) =>
        call.result = <<"InvalidLabelValueError">>

\* C9: under either rule a blank raw value is excluded exactly as 0 is;
\* uncertain-as-positive includes -1 and 1; uncertain-as-negative
\* includes 1 only, and excludes -1, 0 and blank.
C9_BlankAsZero ==
    Labeled =>
        \A i \in 1..Len(full_df) : \A f \in TargetFindings :
            LET v == full_df[i][f]
                named == f \in NamedIn(full_df[i]["feature_string"])
            IN  /\ v \in {NaN, Num(0)} => ~named
                /\ (f \in Range(u_one_features) /\ v \in {Num(-1), Num(1)}) => named
                /\ f \in Range(u_zero_features) => (named <=> v = Num(1))

C9_Witness ==
    /\ Labeled
    /\ full_df[1]["Atelectasis"] = NaN
    /\ full_df[1]["Edema"] = Num(-1)
    /\ full_df[1]["Cardiomegaly"] = NaN
    /\ full_df[1]["Consolidation"] = Num(-1)
    /\ full_df[1]["Pleural Effusion"] = Num(1)
    /\ NamedIn(full_df[1]["feature_string"]) = {"Edema", "Pleural Effusion"}

\* C10: the feature_string column is never missing, and it holds the
\* empty string for a row in which no target finding qualifies.
C10_EmptyNotMissing ==
    Labeled =>
        \A i \in 1..Len(full_df) :
            /\ full_df[i]["feature_string"] # None
            /\ (\A f \in TargetFindings : ~PolicyIncludes(f, full_df[i][f]))
                   => full_df[i]["feature_string"] = <<>>

C10_Witness ==
    /\ Labeled
    /\ full_df[1]["Atelectasis"] = Num(0)
    /\ full_df[1]["Cardiomegaly"] = Num(-1)
    /\ \A f \in TargetFindings : ~PolicyIncludes(f, full_df[1][f])
    /\ full_df[1]["feature_string"] = <<>>

\* C11: a finding that is in neither rule list never appears in the
\* result of feature_string, whatever its raw value.
C11_NonTargetNeverNamed ==
    call.op = "feature_string" =>
        \A f \in Range(chexnet_targets) \ (Range(u_one_features) \cup Range(u_zero_features)) :
            f \notin NamedIn(call.result)

C11_Witness ==
    /\ call.op = "feature_string"
    /\ call.row["No Finding"] = Num(1)
    /\ call.row["Edema"] = Num(1)
    /\ NamedIn(call.result) = {"Edema"}

\* The qualifying findings of one rule list, in list order.
Qualifying(row, features) ==
    SelectSeq(features, LAMBDA f : PolicyIncludes(f, row[f]))

AsStrings(names) == [k \in 1..Len(names) |-> <<names[k]>>]

\* C12: iterating the uncertain-as-negative list first gives the same set
\* of findings and only another serialization; feature_string lists the
\* qualifying uncertain-as-positive findings in list order, then the
\* qualifying uncertain-as-negative findings in list order.
C12_OrderOfRuleLists ==
    call.op = "feature_string" =>
        LET ones == Qualifying(call.row, u_one_features)
            zeros == Qualifying(call.row, u_zero_features)
            swapped == Join(<<";">>, UOneLoop(call.row, 1, UZeroLoop(call.row, 1, <<>>)))
        IN  /\ NamedIn(swapped) = NamedIn(call.result)
            /\ (Len(ones) > 0 /\ Len(zeros) > 0) => swapped # call.result
            /\ IF Len(ones) + Len(zeros) = 0 THEN call.result = <<>>
               ELSE Split(call.result, ";", -1) = AsStrings(ones \o zeros)

C12_Witness ==
    /\ call.op = "feature_string"
    /\ call.row["Atelectasis"] = Num(0)
    /\ call.result = <<"Edema", ";", "Cardiomegaly", ";", "Pleural Effusion">>

\* C13: no finding name appears twice in the string feature_string
\* returns; the two rule lists are disjoint, have no repeated entry and
\* together are exactly chexpert_targets.
C13_EachNameOnce ==
    /\ Range(u_one_features) \cap Range(u_zero_features) = {}
    /\ NoRepeats(u_one_features) /\ NoRepeats(u_zero_features)
    /\ Range(u_one_features) \cup Range(u_zero_features) = Range(chexpert_targets)
    /\ call.op = "feature_string" =>
          (call.result # <<>> => NoRepeats(Split(call.result, ";", -1)))

C13_Witness ==
    /\ call.op = "feature_string"
    /\ Len(Split(call.result, ";", -1)) = Len(chexpert_targets)
    /\ NamedIn(call.result) = Range(chexpert_targets)

\* C14: a call of feature_string leaves the row and the tables as they
\* are, and its result depends on the finding values only: every row
\* with the same finding values has the same string.
C14_FeatureStringPure ==
    [][(call'.op = "feature_string" /\ call' # call) =>
          /\ full_df' = full_df
          /\ full_train_df' = full_train_df
          /\ full_valid_df' = full_valid_df
          /\ \E i \in 1..Len(full_df') : full_df'[i] = call'.row
          /\ \A j \in 1..Len(full_df') :
                (\A f \in TargetFindings : full_df'[j][f] = call'.row[f])
                    => full_df'[j]["feature_string"] = call'.result]_vars

C14_Witness ==
    /\ call.op = "feature_string"
    /\ \E j \in 1..Len(full_df) :
          /\ full_df[j] # call.row
          /\ \A f \in TargetFindings : full_df[j][f] = call.row[f]
          /\ full_df[j]["feature_string"] = call.result
          /\ call.result # <<>>

(***************************************************************************)
(* Properties of the path parsing.                                         *)
(***************************************************************************)
Cell10Ran == pc \in {"cell11", "cell12", "KeyError"}

\* Any error that stops the cell is taken for the PathParseError.
Cell10Raised == pc = "KeyError"

Segments(path) == Len(Split(path, "/", -1))

\* C8: a path with fewer than four '/'-separated segments makes the
\* derivation of patient and study fail with PathParseError, and no row
\* ends up with a null patient or study identifier.
C8_ShortPathRaises ==
    Cell10Ran =>
        /\ (\E i \in 1..Len(full_valid_df) : Segments(full_valid_df[i]["Path"]) < 4)
               => Cell10Raised
        /\ \A i \in 1..Len(full_valid_df) :
               /\ "patient" \in DOMAIN full_valid_df[i] => full_valid_df[i]["patient"] # None
               /\ "study" \in DOMAIN full_valid_df[i] => full_valid_df[i]["study"] # None

(***************************************************************************)
(* Properties of the study-level evaluator.                                *)
(***************************************************************************)
\* The rows of a table that belong to one (patient, study) pair.
StudyRows(df, key) ==
    {i \in 1..Len(df) : df[i]["patient"] = key[1] /\ df[i]["study"] = key[2]}

StudyPairs(df) ==
    {<<df[i]["patient"], df[i]["study"]>> :
        i \in {r \in 1..Len(df) : df[r]["patient"] # None /\ df[r]["study"] # None}}

\* The greatest of the values present (blank when none is).
GreatestOf(S) == IF S \ {NaN} = {} THEN NaN ELSE MaxOf(S \ {NaN})

ClassPos(f) == CHOOSE j \in 1..Len(learn.classes) : learn.classes[j] = f

\* Per study of the index, the greatest value of finding f in the table,
\* and the greatest score the learner gives to f.
TruthVec(index, f) ==
    [g \in 1..Len(index) |->
        GreatestOf({full_valid_df[i][f] : i \in StudyRows(full_valid_df, index[g])})]

ScoreVec(index, f) ==
    [g \in 1..Len(index) |->
        GreatestOf({learn.preds[i][ClassPos(f)] : i \in StudyRows(full_valid_df, index[g])})]

NoDuplicates(seq) == \A a, b \in 1..Len(seq) : seq[a] = seq[b] => a = b

\* C2: every study aggregate is the maximum of the finding's values over
\* exactly the rows of that patient and that study, for the ground-truth
\* table and for the predicted scores alike.
C2_StudyAggregateIsMax ==
    /\ call.op = "validation_eval" =>
          /\ Range(call.index) = StudyPairs(full_valid_df) /\ NoDuplicates(call.index)
          /\ \A g \in 1..Len(call.index) : \A j \in 1..Len(learn.classes) :
                /\ call.acts[g][j] = TruthVec(call.index, learn.classes[j])[g]
                /\ call.preds[g][j] = ScoreVec(call.index, learn.classes[j])[g]
    /\ call.op = "get_preds_per_study" =>
          /\ Range(call.index) = StudyPairs(full_valid_df) /\ NoDuplicates(call.index)
          /\ \A g \in 1..Len(call.index) : \A j \in 1..Len(learn.classes) :
                call.result[g][j] = ScoreVec(call.index, learn.classes[j])[g]

C2_Witness ==
    /\ call.op = "validation_eval"
    /\ Len(full_valid_df) = 2
    /\ call.index = <<<<<<"p">>, <<"s">>>>>>
    /\ full_valid_df[1]["Edema"] = Num(0) /\ full_valid_df[2]["Edema"] = Num(1)
    /\ call.acts[1][ClassPos("Edema")] = Num(1)
    /\ learn.preds[1][ClassPos("Edema")] < learn.preds[2][ClassPos("Edema")]
    /\ call.preds[1][ClassPos("Edema")] = learn.preds[2][ClassPos("Edema")]

\* C3: the score stored under a finding's name is the AUC between that
\* finding's aggregated ground truth and that finding's aggregated scores.
C3_ScoreUnderOwnName ==
    (call.op = "validation_eval" /\ call.raised = "none") =>
        /\ DOMAIN call.auc_scores = TargetFindings
        /\ \A f \in TargetFindings :
              call.auc_scores[f] =
                  roc_auc_score(TruthVec(call.index, f), ScoreVec(call.index, f))

C3_Witness ==
    /\ call.op = "validation_eval" /\ call.raised = "none"
    /\ call.auc_scores["Atelectasis"] = [num |-> 1, den |-> 1]
    /\ call.auc_scores["Consolidation"] = [num |-> 0, den |-> 1]

\* C4: every finding cell of full_train_df and full_valid_df keeps the
\* value read from the file, whatever operations have run.
C4_FindingCellsAsRead ==
    /\ Len(full_valid_df) = Len(files.valid)
    /\ Len(full_train_df) = Len(files.train)
    /\ \A i \in 1..Len(full_valid_df) : \A f \in FindingColumns :
          full_valid_df[i][f] = files.valid[i][f]
    /\ \A i \in 1..Len(full_train_df) : \A f \in FindingColumns :
          full_train_df[i][f] = files.train[i][f]

\* The validation table with its finding cells as loaded.
LoadedValid ==
    [i \in 1..Len(full_valid_df) |->
        [c \in DOMAIN full_valid_df[i] |->
            IF c \in FindingColumns THEN files.valid[i][c] ELSE full_valid_df[i][c]]]

Outcome(c) ==
    IF c.raised = "none"
    THEN [raised |-> c.raised, auc_scores |-> c.auc_scores, avg_auc |-> c.avg_auc]
    ELSE [raised |-> c.raised]

\* C5: for a fixed model and loaded validation table, validation_eval
\* gives the same scores and average whatever calls were made before.
C5_EvalIndependentOfHistory ==
    call.op = "validation_eval" => Outcome(call) = Outcome(validation_eval(LoadedValid))

ConstantTruth ==
    \E f \in Range(learn.classes) : Cardinality(Unique(TruthVec(call.index, f))) = 1

NoScores == "auc_scores" \notin DOMAIN call /\ "avg_auc" \notin DOMAIN call

RowOrders(n) == {f \in [1..n -> 1..n] : \A a, b \in 1..n : f[a] = f[b] => a = b}

Permute(seq, f) == [r \in 1..Len(seq) |-> seq[f[r]]]

\* C15: the study index and the aggregated truth and score matrices of
\* validation_eval are the same for every permutation of the rows of
\* full_valid_df, the prediction rows being permuted with them.
C15_RowOrderIndependent ==
    (call.op = "validation_eval" /\ Len(learn.preds) = Len(full_valid_df)) =>
        \A f \in RowOrders(Len(full_valid_df)) :
            LET df == Permute(full_valid_df, f)
                preds_df == AssignPreds(df, learn.classes, Permute(learn.preds, f), 1)
            IN  /\ GroupIndex(df) = call.index
                /\ GroupByMax(df, learn.classes) = call.acts
                /\ GroupByMax(preds_df, learn.classes) = call.preds

C15_Witness ==
    /\ call.op = "validation_eval"
    /\ Len(full_valid_df) = 2
    /\ Len(call.index) = 1
    /\ \E j \in 1..Len(learn.classes) :
          /\ learn.preds[1][j] > learn.preds[2][j]
          /\ call.preds[1][j] = learn.preds[1][j]
    /\ \E j \in 1..Len(learn.classes) :
          /\ learn.preds[2][j] > learn.preds[1][j]
          /\ call.preds[1][j] = learn.preds[2][j]

\* The table with one row per study that get_preds_per_study returns.
AggregatedTable(index, matrix, classes) ==
    [g \in 1..Len(index) |->
        [c \in {"patient", "study"} \cup Range(classes) |->
            IF c = "patient" THEN index[g][1]
            ELSE IF c = "study" THEN index[g][2]
            ELSE matrix[g][ClassPos(c)]]]

\* C16: the group-wise maximum applied to the one-row-per-study table it
\* produced returns that table unchanged.
C16_AggregationIdempotent ==
    call.op = "get_preds_per_study" =>
        LET t == AggregatedTable(call.index, call.result, learn.classes)
        IN  /\ GroupIndex(t) = call.index
            /\ GroupByMax(t, learn.classes) = call.result

C16_Witness ==
    /\ call.op = "get_preds_per_study"
    /\ Len(full_valid_df) = 2
    /\ Len(call.index) = 1
    /\ \E j \in 1..Len(learn.classes) : call.result[1][j] > Num(0)


(***************************************************************************)
(* Properties of the score.                                                *)
(***************************************************************************)
Scored == call.op = "roc_auc_score" /\ call.raised = "none"

Positives == {g \in 1..Len(call.y_true) : call.y_true[g] = Num(1)}

Negatives == {g \in 1..Len(call.y_true) : call.y_true[g] = Num(0)}

Higher == {pr \in Positives \X Negatives : call.y_score[pr[1]] > call.y_score[pr[2]]}

Tied == {pr \in Positives \X Negatives : call.y_score[pr[1]] = call.y_score[pr[2]]}

\* C17: with at least one positive and one negative study the score is
\* (pairs with the positive study scored higher + half the tied pairs)
\* divided by (positives times negatives).
C17_AucIsPairFraction ==
    (call.op = "roc_auc_score" /\ Positives # {} /\ Negatives # {}) =>
        /\ call.raised = "none"
        /\ call.result.den > 0
        /\ call.result.num * (2 * Cardinality(Positives) * Cardinality(Negatives))
              = (2 * Cardinality(Higher) + Cardinality(Tied)) * call.result.den

C17_Witness ==
    /\ Scored
    /\ Cardinality(Positives) = 2 /\ Cardinality(Negatives) = 2
    /\ Cardinality(Higher) = 1 /\ Cardinality(Tied) = 1
    /\ call.result = [num |-> 3, den |-> 8]

\* C18: when every positive study is scored strictly above every negative
\* study the score is exactly 1.
C18_PerfectPredictor ==
    (Scored /\ Higher = Positives \X Negatives) => call.result = [num |-> 1, den |-> 1]

C18_Witness ==
    /\ Scored
    /\ Cardinality(Positives) = 2 /\ Cardinality(Negatives) = 2
    /\ Higher = Positives \X Negatives
    /\ Cardinality(Unique(call.y_score)) = 3
    /\ call.result = [num |-> 1, den |-> 1]

\* C19: when all studies have the same predicted score, and both classes
\* are present, the score is 1/2.
C19_ConstantPredictor ==
    (Scored /\ Cardinality(Unique(call.y_score)) = 1) => call.result = [num |-> 1, den |-> 2]

C19_Witness ==
    /\ Scored
    /\ Cardinality(Positives) = 1 /\ Cardinality(Negatives) = 3
    /\ Unique(call.y_score) = {1}
    /\ call.result = [num |-> 1, den |-> 2]


(***************************************************************************)
(* Properties of the report.                                               *)
(***************************************************************************)
RECURSIVE DenProduct(_, _)
DenProduct(d, i) ==
    IF i > Len(chexpert_targets) THEN 1
    ELSE d[chexpert_targets[i]].den * DenProduct(d, i + 1)

\* The sum of the five scores as a multiple of 1 / DenProduct.
RECURSIVE NumSum(_, _)
NumSum(d, i) ==
    IF i > Len(chexpert_targets) THEN 0
    ELSE d[chexpert_targets[i]].num * (DenProduct(d, 1) \div d[chexpert_targets[i]].den)
            + NumSum(d, i + 1)

\* q is the sum of the scores of d divided by their number.
IsExactMean(q, d) ==
    /\ q.den > 0
    /\ q.num * Len(chexpert_targets) * DenProduct(d, 1) = NumSum(d, 1) * q.den

Distance(a, b) == IF a >= b THEN a - b ELSE b - a

\* p is within half a unit of the third significant digit of q.
WithinThreeDigits(p, q) ==
    /\ p.den > 0
    /\ 200 * Distance(p.num * q.den, q.num * p.den) <= q.num * p.den

Reported == call.op = "report"

\* C20 as claimed: one score per target, the average is the sum of the
\* unrounded scores divided by their number, only the printed numbers are
\* rounded to three significant digits, and validation_eval returns the
\* unrounded average.
C20_ReturnsUnroundedAverage ==
    Reported =>
        /\ DOMAIN call.auc_scores = Range(chexpert_targets)
        /\ IsExactMean(call.avg_auc, call.auc_scores)
        /\ WithinThreeDigits(call.printed.avg, call.avg_auc)
        /\ \A k \in Range(chexpert_targets) :
              WithinThreeDigits(call.printed.auc[k], call.auc_scores[k])
        /\ call.returned = call.avg_auc

\* C20: one score per target, the average is the sum of the unrounded
\* scores divided by their number, only the printed numbers are rounded
\* to three significant digits; part_000 returns the unrounded average,
\* replicating_chexpert.ipynb returns nothing.
C20_AverageOfUnrounded ==
    Reported =>
        /\ DOMAIN call.auc_scores = Range(chexpert_targets)
        /\ IsExactMean(call.avg_auc, call.auc_scores)
        /\ WithinThreeDigits(call.printed.avg, call.avg_auc)
        /\ \A k \in Range(chexpert_targets) :
              WithinThreeDigits(call.printed.auc[k], call.auc_scores[k])
        /\ (pc = "part_000" => call.returned = call.avg_auc)
        /\ (pc = "replicating_chexpert" => call.returned = None)

C20_Witness ==
    /\ Reported
    /\ pc = "part_000"
    /\ call.avg_auc = [num |-> 1, den |-> 15]
    /\ call.printed.avg = [num |-> 667, den |-> 10000]
    /\ call.returned = [num |-> 1, den |-> 15]


(***************************************************************************)
(* Properties of the derived identifiers.                                  *)
(***************************************************************************)
SlashesOf(path) == {k \in 1..Len(path) : path[k] = "/"}

\* The position of the k-th '/' of the path; 0 before the first segment
\* and one past the end after the last.
SlashAt(path, k) ==
    IF k = 0 THEN 0
    ELSE IF k > Cardinality(SlashesOf(path)) THEN Len(path) + 1
    ELSE CHOOSE x \in SlashesOf(path) :
             Cardinality({y \in SlashesOf(path) : y < x}) = k - 1

\* The k-th segment: what stands between the (k-1)-th and the k-th '/'.
SegmentOf(path, k) == SubSeq(path, SlashAt(path, k - 1) + 1, SlashAt(path, k) - 1)

LongPath(row) == Cardinality(SlashesOf(row["Path"])) >= 3

\* C21: for every path with at least four segments the derived patient is
\* exactly the third segment and the derived study exactly the fourth.
C21_ThirdAndFourthSegment ==
    Cell10Ran =>
        \A i \in 1..Len(full_valid_df) :
            LongPath(full_valid_df[i]) =>
                /\ ~Cell10Raised
                /\ full_valid_df[i]["patient"] = SegmentOf(full_valid_df[i]["Path"], 3)
                /\ full_valid_df[i]["study"] = SegmentOf(full_valid_df[i]["Path"], 4)
                /\ "/" \notin Range(full_valid_df[i]["patient"])
                /\ "/" \notin Range(full_valid_df[i]["study"])

C21_Witness ==
    /\ pc = "cell11"
    /\ Cardinality(SlashesOf(full_valid_df[1]["Path"])) = 4
    /\ full_valid_df[1]["patient"] = <<"a">>
    /\ full_valid_df[1]["study"] = <<"a">>
    /\ Len(SegmentOf(full_valid_df[1]["Path"], 5)) = 1


(***************************************************************************)
(* Properties of the validation subset.                                    *)
(***************************************************************************)
\* Row v of the subset is row v of full_valid_df: the same columns with
\* the cells as loaded, and the label string besides.
SameRow(v, i) ==
    /\ DOMAIN v \ {"feature_string"} = DOMAIN full_valid_df[i]
    /\ \A c \in DOMAIN full_valid_df[i] : v[c] = LoadedValid[i][c]

SameRowsInOrder(V) ==
    /\ Len(V) = Len(full_valid_df)
    /\ \A i \in 1..Len(V) : SameRow(V[i], i)

\* C22: the rows with train_valid = True of full_df, and of the table
\* get_sample_df returns for every sample, are the rows of full_valid_df
\* in the same order, so that row i of the predictions goes to row i of
\* full_valid_df.
C22_ValidSubsetIsValidTable ==
    /\ pc \in {"cell12", "cell63", "ready"} =>
          /\ SameRowsInOrder(ValidOnly(full_df))
          /\ \A sample_patients \in SUBSET UniquePatients(TrainOnly(full_df)) :
                SameRowsInOrder(ValidOnly(get_sample_df(sample_patients)))
    /\ call.op = "get_sample_df" => SameRowsInOrder(ValidOnly(call.result))
    /\ pc = "ready" => Len(learn.preds) = Len(full_valid_df)
    /\ call.op = "get_preds_per_study" =>
          \A i \in 1..Len(full_valid_df) : \A j \in 1..Len(learn.classes) :
              full_valid_df[i][learn.classes[j]] = learn.preds[i][j]

C22_Witness ==
    /\ call.op = "get_sample_df"
    /\ TrainOnly(full_df) # <<>>
    /\ TrainOnly(call.result) = <<>>
    /\ Len(full_valid_df) = 2
    /\ full_valid_df[1]["Path"] # full_valid_df[2]["Path"]
    /\ ValidOnly(call.result)[1]["Path"] = full_valid_df[1]["Path"]
    /\ ValidOnly(call.result)[2]["Path"] = full_valid_df[2]["Path"]


(***************************************************************************)
(* Properties of the training run.                                         *)
(***************************************************************************)
ErrorNames == {"ValueError", "IndexError", "KeyError", "AttributeError"}

\* The next callback to be called at this epoch end, if any.
NextCallback == IF pc = "on_epoch_end" /\ fit.queue # <<>> THEN Head(fit.queue) ELSE "none"

\* A step of the run itself, not of the clock.
RunStep == fit'.now = fit.now /\ vars' # vars

EvalFails ==
    /\ NextCallback = "CheXpertEvalCallback"
    /\ ~learn.che_xpert_eval_callback.skip
    /\ validation_eval(full_valid_df).raised # "none"

\* C23: an error raised by validation_eval leaves on_epoch_end and fit as
\* it is: no value takes its place, nothing is saved, and nothing is run
\* again after it.
C23_ErrorsSurface ==
    [][/\ (EvalFails /\ RunStep) =>
             /\ pc' = validation_eval(full_valid_df).raised
             /\ call'.op = "validation_eval" /\ call'.raised = pc'
             /\ DOMAIN call' \cap {"avg_auc", "auc_scores", "returned"} = {}
             /\ learn' = learn
             /\ fit'.saved = fit.saved /\ fit'.evals = fit.evals
             /\ ~fit'.running
       /\ pc \in ErrorNames => UNCHANGED vars]_vars

C23_Witness ==
    /\ pc = "ValueError"
    /\ call.op = "validation_eval" /\ call.raised = "ValueError"
    /\ fit.epoch = 1 /\ fit.epochs = 2
    /\ fit.received = 1
    /\ ~learn.che_xpert_eval_callback.skip


(***************************************************************************)
(* Properties of the delimiter.                                            *)
(***************************************************************************)
\* C24: the delimiter of feature_string is the label_delim given to the
\* framework and is no finding name: a non-empty feature_string split on
\* it gives back the derived names in order, and joins back to itself.
C24_DelimiterRoundTrip ==
    /\ \A k \in 1..Len(chexnet_targets) : chexnet_targets[k] # label_delim
    /\ call.op = "feature_string" =>
          LET derived == Qualifying(call.row, u_one_features)
                             \o Qualifying(call.row, u_zero_features)
              parts == Split(call.result, label_delim, -1)
          IN  derived # <<>> =>
                  /\ Len(parts) = Len(derived)
                  /\ \A k \in 1..Len(parts) : parts[k] = <<derived[k]>>
                  /\ LabelsOf(call.result) = Range(derived)
                  /\ Join(<<label_delim>>, parts) = call.result

C24_Witness ==
    /\ call.op = "feature_string"
    /\ call.row["Atelectasis"] = Num(-1)
    /\ call.row["Edema"] = Num(1)
    /\ Split(call.result, label_delim, -1) = <<<<"Atelectasis">>, <<"Edema">>>>


(***************************************************************************)
(* Properties of the ground truth that validation_eval aggregates.         *)
(***************************************************************************)
\* The indicator of finding f on a row: 1 when the policy puts f into the
\* derived label set of the row, 0 otherwise.
Indicator(row, f) == IF PolicyIncludes(f, row[f]) THEN Num(1) ELSE Num(0)

\* C25: on a validation table that holds its cells as loaded, the truth
\* value that validation_eval aggregates for a row and a finding is the
\* indicator of the finding under the policy, so every study aggregate
\* is 0 or 1.
C25_TruthIsPolicyIndicator ==
    (call.op = "validation_eval" /\ full_valid_df = LoadedValid) =>
        \A g \in 1..Len(call.index) : \A j \in 1..Len(learn.classes) :
            /\ call.acts[g][j] \in {Num(0), Num(1)}
            /\ call.acts[g][j] =
                  GreatestOf({Indicator(full_valid_df[i], learn.classes[j]) :
                                 i \in StudyRows(full_valid_df, call.index[g])})


\* The aggregates of one study, computed from the rows of the study.
TruthOf(key) ==
    [j \in 1..Len(learn.classes) |->
        GreatestOf({full_valid_df[i][learn.classes[j]] : i \in StudyRows(full_valid_df, key)})]

ScoresOf(key) ==
    [j \in 1..Len(learn.classes) |->
        GreatestOf({learn.preds[i][j] : i \in StudyRows(full_valid_df, key)})]

\* C26: in validation_eval the truth matrix and the score matrix have one
\* row per distinct (patient, study) pair of the validation table, and
\* row g of both belongs to the same pair.
C26_MatricesAligned ==
    call.op = "validation_eval" =>
        /\ Len(call.acts) = Cardinality(StudyPairs(full_valid_df))
        /\ Len(call.preds) = Len(call.acts)
        /\ \A g \in 1..Len(call.acts) :
              \E key \in StudyPairs(full_valid_df) :
                  /\ call.acts[g] = TruthOf(key)
                  /\ call.preds[g] = ScoresOf(key)
                  /\ \A h \in 1..Len(call.acts) : h # g => call.index[h] # key

C26_Witness ==
    /\ call.op = "validation_eval"
    /\ Cardinality(StudyPairs(full_valid_df)) = 2
    /\ Len(call.acts) = 2 /\ Len(call.preds) = 2
    /\ call.acts[1] # call.acts[2]
    /\ call.preds[1] # call.preds[2]
    /\ call.raised = "none"


(***************************************************************************)
(* Properties of the checkpoints.                                          *)
(***************************************************************************)
PositionOf(cb) == CHOOSE k \in 1..Len(fit.callbacks) : fit.callbacks[k] = cb

\* C27: the evaluation callback is called before the save callback, and
\* the name of every checkpoint of part_000 carries the average that
\* validation_eval computed at the end of the same epoch.
C27_NameCarriesSameEpochAuc ==
    (fit.notebook = "part_000" /\ fit.epochs > 0) =>
        /\ Range(cbfs) \subseteq Range(fit.callbacks) =>
              PositionOf("CheXpertEvalCallback") < PositionOf("SaveCallback")
        /\ \A k \in 1..Len(fit.saved) :
              \E e \in 1..Len(fit.evals) :
                  /\ fit.evals[e].epoch = fit.saved[k].epoch
                  /\ fit.saved[k].name.auc = Format3(fit.evals[e].avg_auc)


\* C28: two checkpoints saved in one training run never have the same
\* name.
C28_CheckpointNamesDiffer ==
    fit.epochs > 0 =>
        \A a, b \in 1..Len(fit.saved) :
            a # b => fit.saved[a].name # fit.saved[b].name

(***************************************************************************)
(* Properties of lr_find_no_cbs and of the skip attributes.                *)
(***************************************************************************)
Occurrences(seq, x) == Cardinality({k \in 1..Len(seq) : seq[k] = x})

Others(seq) == SelectSeq(seq, LAMBDA cbf : cbf \notin Range(cbfs))

\* C29: lr_find runs with neither of the two callbacks in callback_fns,
\* and when lr_find_no_cbs returns callback_fns holds each of the two
\* once and every other factory as before.
C29_LrFindRestoresCallbacks ==
    call.op = "lr_find_no_cbs" =>
        /\ Range(call.during) \cap Range(cbfs) = {}
        /\ call.during = Others(call.before)
        /\ call.raised = "none" =>
              /\ \A cb \in Range(cbfs) : Occurrences(learn.callback_fns, cb) = 1
              /\ Others(learn.callback_fns) = Others(call.before)

C29_Witness ==
    /\ call.op = "lr_find_no_cbs" /\ call.raised = "none"
    /\ fit.lr_finds = 2
    /\ call.before = <<"Recorder">>
    /\ learn.callback_fns = <<"Recorder", "CheXpertEvalCallback", "SaveCallback">>

\* C30: with its skip set the evaluation callback evaluates nothing and
\* leaves avg_auc as it is; the save callback counts every epoch end it
\* is called at, and with its skip set it saves nothing.
C30_SkipSuppressesActionOnly ==
    [][RunStep =>
          /\ (NextCallback = "CheXpertEvalCallback" /\ learn.che_xpert_eval_callback.skip) =>
                /\ call' = call /\ fit'.evals = fit.evals
                /\ learn'.che_xpert_eval_callback = learn.che_xpert_eval_callback
                /\ pc' = pc
          /\ NextCallback = "SaveCallback" =>
                /\ learn'.save_callback.epoch = learn.save_callback.epoch + 1
                /\ learn.save_callback.skip => (fit'.saved = fit.saved /\ pc' = pc)
          /\ learn'.save_callback # NoAttribute =>
                learn'.save_callback.epoch = fit'.received]_vars

C30_Witness ==
    /\ pc = "ready"
    /\ fit.epoch = 2
    /\ learn.save_callback = [epoch |-> 2, skip |-> TRUE]
    /\ learn.che_xpert_eval_callback = [skip |-> TRUE, avg_auc |-> IntZero]
    /\ fit.received = 2
    /\ fit.saved = <<>> /\ fit.evals = <<>>

====
